---- MODULE Spec2Model ----
(***************************************************************************)
(* Model of the collection plugin of Caption-Bot                           *)
(* (src/bot/plugins/collection.py): the process-wide collection_state, the *)
(* caption extractor, and the handlers collect / file collection / photo   *)
(* thumbnail / delthumb / upload / clear.  Handlers are coroutines run by  *)
(* the dispatcher's workers, so two handlers interleave exactly at their   *)
(* awaits; every action below is the code between two awaits.              *)
(*                                                                         *)
(* Text is a sequence of one-character strings; <<>> stands for both None  *)
(* and the empty string (the code tests them with `not caption`).          *)
(***************************************************************************)
EXTENDS Integers, Sequences, FiniteSets, TLC

\* ------------------------------------------------------------------ bounds
\* number of inbound media messages over a behaviour (message ids 1..MaxMsgs)
MaxMsgs == 2
\* number of dispatcher workers that may be inside upload_command at once
MaxRuns == 2

Runs == 1..MaxRuns

\* ------------------------------------------------------------ text helpers
Digits == {"0", "1", "2", "3", "4", "5", "6", "7", "8", "9"}
DigitVal(c) ==
    CASE c = "0" -> 0 [] c = "1" -> 1 [] c = "2" -> 2 [] c = "3" -> 3
      [] c = "4" -> 4 [] c = "5" -> 5 [] c = "6" -> 6 [] c = "7" -> 7
      [] c = "8" -> 8 [] c = "9" -> 9

\* s[i] or a character outside every class when i is past the end
At(s, i) == IF i >= 1 /\ i <= Len(s) THEN s[i] ELSE "$"

\* the text s[i..i+Len(w)-1] equals w
HasAt(s, i, w) ==
    /\ i + Len(w) - 1 <= Len(s)
    /\ \A k \in 1..Len(w) : s[i + k - 1] = w[k]

\* \d+ at i: the number of digits of the maximal run starting there
RECURSIVE DigitRun(_, _)
DigitRun(s, i) == IF At(s, i) \in Digits THEN 1 + DigitRun(s, i + 1) ELSE 0

\* [\s\.]? of the season and episode patterns
Separators == {" ", "."}

\* str.zfill(2): pads on the left up to width 2, never truncates
zfill2(d) == IF Len(d) >= 2 THEN d ELSE IF Len(d) = 1 THEN <<"0">> \o d ELSE <<"0", "0">>

\* int(x) of a digit string
RECURSIVE int(_)
int(d) == IF d = <<>> THEN 0 ELSE 10 * int(SubSeq(d, 1, Len(d) - 1)) + DigitVal(d[Len(d)])


\* --------------------------------------------------- extract_info_from_caption
\* [Ss](?:eason)?[\s\.]?(\d+) and [Ee](?:pisode)?[\s\.]?(\d+) tried at index i:
\* the captured digits, or <<>> when the pattern does not match there.  Neither
\* optional part can be given back by backtracking (the character it took is
\* no digit), so the greedy reading is the only one.
MarkerAt(s, i, letters, word) ==
    IF At(s, i) \notin letters THEN <<>>
    ELSE LET j1 == IF HasAt(s, i + 1, word) THEN i + 1 + Len(word) ELSE i + 1
             j2 == IF At(s, j1) \in Separators THEN j1 + 1 ELSE j1
             n  == DigitRun(s, j2)
         IN  IF n >= 1 THEN SubSeq(s, j2, j2 + n - 1) ELSE <<>>

\* re.search: the match at the leftmost index that has one
MarkerSearch(s, letters, word) ==
    LET hits == {i \in 1..Len(s) : MarkerAt(s, i, letters, word) # <<>>}
    IN  IF hits = {} THEN <<>>
        ELSE MarkerAt(s, CHOOSE i \in hits : \A k \in hits : i <= k, letters, word)

\* (\d{3,4})[pP] tried at index i: four digits first, then three
QualityAt(s, i) ==
    IF DigitRun(s, i) >= 4 /\ At(s, i + 4) \in {"p", "P"} THEN SubSeq(s, i, i + 3)
    ELSE IF DigitRun(s, i) >= 3 /\ At(s, i + 3) \in {"p", "P"} THEN SubSeq(s, i, i + 2)
    ELSE <<>>

QualitySearch(s) ==
    LET hits == {i \in 1..Len(s) : QualityAt(s, i) # <<>>}
    IN  IF hits = {} THEN <<>>
        ELSE QualityAt(s, CHOOSE i \in hits : \A k \in hits : i <= k)

\* the extractor's None
NoInfo == [season |-> <<>>, episode |-> <<>>, quality |-> <<>>]

\* the info dict (the series name, which no handler reads back, is left out);
\* NoInfo when the text is empty or holds no episode marker
extract_info_from_caption(caption) ==
    IF caption = <<>> THEN NoInfo
    ELSE LET season_match  == MarkerSearch(caption, {"S", "s"}, <<"e", "a", "s", "o", "n">>)
             episode_match == MarkerSearch(caption, {"E", "e"}, <<"p", "i", "s", "o", "d", "e">>)
             quality_match == QualitySearch(caption)
             info == [season  |-> IF season_match # <<>> THEN zfill2(season_match) ELSE <<>>,
                      episode |-> IF episode_match # <<>> THEN zfill2(episode_match) ELSE <<>>,
                      quality |-> IF quality_match # <<>> THEN quality_match \o <<"p">> ELSE <<>>]
         IN  IF info.episode # <<>> THEN info ELSE NoInfo

\* the default quality of a stored item
Unknown == <<"Unknown">>


\* ------------------------------------------------------------------- state
VARIABLES
    active,          \* collection_state["active"]
    files,           \* collection_state["files"], in insertion order
    thumbnail_path,  \* collection_state["thumbnail_path"] is set (and the file exists)
    target_channel,  \* collection_state["target_channel"]: a chat, or "None"
    channel_id,      \* the channel_id local of a set_channel_command waiting for get_chat
    nextId,          \* message.id of the next inbound media message
    reply,           \* the last reply a handler sent: its text, and the counts the text shows
    run              \* per dispatcher worker: the locals of its upload_command

vars == <<active, files, thumbnail_path, target_channel, channel_id, nextId, reply, run>>

Kinds == {"document", "video", "audio", "photo"}

\* the chats of the model: the private chat the operator writes the commands
\* in (message.chat.id of every command), and a channel
OperatorChat == "operator"
Chats == {OperatorChat, "channel"}

\* the locals of an upload_command that has not started; log lists the
\* message ids a send or copy call was made for, resp is what the last
\* get_messages, send or copy call answered, chat is message.chat.id (the chat
\* every send, copy and sticker call of the run names), stickers counts the
\* send_sticker calls the run has made
RunIdle ==
    [pc |-> "idle", files |-> <<>>, aliased |-> FALSE, groups |-> <<>>,
     gi |-> 0, fi |-> 0, uploaded |-> 0, failed |-> 0, custom_thumb |-> FALSE,
     log |-> <<>>, resp |-> "none", chat |-> "None", stickers |-> 0]

Init ==
    /\ active = FALSE
    /\ files = <<>>
    /\ thumbnail_path = FALSE
    /\ target_channel = "None"
    /\ channel_id = "None"
    /\ nextId = 1
    /\ reply = [text |-> "none", n |-> 0, failed |-> 0]
    /\ run = [r \in Runs |-> RunIdle]

\* collection_state["files"] = []: the session gets a new list object, so the
\* `files` local of every upload_command in flight stops aliasing it
Unalias(rs) == [r \in Runs |-> [rs[r] EXCEPT !.aliased = FALSE]]

\* collection_state["files"].append(x): the list object is changed in place, so
\* the `files` local of an upload_command that still aliases it sees the item
AppendAliased(rs, x) ==
    [r \in Runs |-> IF rs[r].aliased THEN [rs[r] EXCEPT !.files = Append(@, x)] ELSE rs[r]]

\* a reply_text that returns sends `text`; one that raises lands in the
\* handler's except branch, which replies with the error
Reply(ok, text, n) ==
    IF ok THEN [text |-> text, n |-> n, failed |-> 0] ELSE [text |-> "error", n |-> 0, failed |-> 0]

\* ------------------------------------------------------------ collect_command
\* collect_command that activates the session and keeps the list
collect_command_keeps_files(ok) ==
    /\ active' = TRUE
    /\ reply' = Reply(ok, "activated", 0)
    /\ UNCHANGED <<files, run, thumbnail_path, nextId, target_channel, channel_id>>

collect_command(ok) ==
    /\ active' = TRUE
    /\ files' = <<>>
    /\ run' = Unalias(run)
    /\ reply' = Reply(ok, "activated", 0)
    /\ UNCHANGED <<thumbnail_path, nextId, target_channel, channel_id>>

\* ------------------------------------------------------ handle_file_collection
\* the file_data dict of an accepted message
file_data(m, id, info) ==
    [message_id |-> id,
     season |-> IF info.season # <<>> THEN info.season ELSE <<"0", "1">>,
     episode |-> info.episode,
     quality |-> IF info.quality # <<>> THEN info.quality ELSE Unknown,
     original_caption |-> m.caption,
     file_type |-> m.kind]

\* collected_info that reads the caption only
collected_info_caption_only(m) ==
    extract_info_from_caption(m.caption)

\* collected_info that prefers the file name to the caption
collected_info_filename_first(m) ==
    LET info == IF m.kind # "photo" THEN extract_info_from_caption(m.file_name) ELSE NoInfo
    IN  IF info # NoInfo THEN info ELSE extract_info_from_caption(m.caption)

\* caption first, the file name of a document / video / audio as fallback
collected_info(m) ==
    LET info == extract_info_from_caption(m.caption)
    IN  IF info # NoInfo THEN info
        ELSE IF m.kind # "photo" THEN extract_info_from_caption(m.file_name)
        ELSE NoInfo

\* file_collection without the guard on collection_state["active"]
file_collection_unguarded(m, id, ok) ==
    LET info == collected_info(m)
    IN  IF info = NoInfo
        THEN /\ reply' = Reply(ok, "no_episode", 0)
             /\ UNCHANGED <<active, files, run>>
        ELSE /\ files' = Append(files, file_data(m, id, info))
             /\ run' = AppendAliased(run, file_data(m, id, info))
             /\ reply' = Reply(ok, "added", Len(files'))
             /\ UNCHANGED active

\* the body of the handler for message m with id `id`; it has no await before
\* its reply, so it is one step
file_collection(m, id, ok) ==
    IF ~active
    THEN UNCHANGED <<active, files, run, reply>>
    ELSE LET info == collected_info(m)
         IN  IF info = NoInfo
             THEN /\ reply' = Reply(ok, "no_episode", 0)
                  /\ UNCHANGED <<active, files, run>>
             ELSE /\ files' = Append(files, file_data(m, id, info))
                  /\ run' = AppendAliased(run, file_data(m, id, info))
                  /\ reply' = Reply(ok, "added", Len(files'))
                  /\ UNCHANGED active

\* a private document, video or audio message arrives
handle_file_collection(m, ok) ==
    /\ nextId <= MaxMsgs
    /\ m.kind # "photo"
    /\ nextId' = nextId + 1
    /\ file_collection(m, nextId, ok)
    /\ UNCHANGED <<thumbnail_path, target_channel, channel_id>>

\* ------------------------------------------------------ handle_photo_thumbnail
\* a private photo arrives: collected when the session is active and its
\* caption holds an episode, saved as the custom thumbnail otherwise
handle_photo_thumbnail(m, ok) ==
    /\ nextId <= MaxMsgs
    /\ m.kind = "photo"
    /\ nextId' = nextId + 1
    /\ UNCHANGED <<target_channel, channel_id>>
    /\ IF active /\ extract_info_from_caption(m.caption) # NoInfo
       THEN /\ file_collection(m, nextId, ok)
            /\ UNCHANGED thumbnail_path
       ELSE \* not ok: the download raised (path unchanged) or the reply did (path set)
            /\ thumbnail_path' \in (IF ok THEN {TRUE} ELSE {TRUE, thumbnail_path})
            /\ reply' = Reply(ok, "thumb_saved", 0)
            /\ UNCHANGED <<active, files, run>>

\* ---------------------------------------------------------- del_thumb_command
del_thumb_command(ok) ==
    /\ IF ~thumbnail_path
       THEN /\ reply' = Reply(ok, "no_thumb", 0)
            /\ UNCHANGED thumbnail_path
       ELSE \* not ok: os.remove raised (path unchanged) or the reply did (path None)
            /\ thumbnail_path' \in (IF ok THEN {FALSE} ELSE {FALSE, TRUE})
            /\ reply' = Reply(ok, "thumb_removed", 0)
    /\ UNCHANGED <<active, files, nextId, run, target_channel, channel_id>>

\* -------------------------------------------------------- set_channel_command
\* the reply of the inner except branch, "Error accessing channel"
ChannelError == [text |-> "channel_error", n |-> 0, failed |-> 0]

\* lines 155-170: without an argument the usage reply; with one, channel_id is
\* taken from the command and get_chat is awaited
set_channel_called(arg, ok) ==
    /\ channel_id = "None"
    /\ IF arg = "None"
       THEN /\ reply' = Reply(ok, "usage", 0)
            /\ UNCHANGED channel_id
       ELSE /\ channel_id' = arg
            /\ UNCHANGED reply
    /\ UNCHANGED <<active, files, thumbnail_path, target_channel, nextId, run>>

\* set_channel_validated that stores the channel before get_chat answers
set_channel_stores_first(outcome) ==
    /\ channel_id # "None"
    /\ channel_id' = "None"
    /\ target_channel' = channel_id
    /\ reply' = IF outcome = "ok" THEN Reply(TRUE, "channel_set", 0) ELSE ChannelError
    /\ UNCHANGED <<active, files, thumbnail_path, nextId, run>>

\* lines 170-187: get_chat answers.  "inaccessible": it raised, the except
\* branch replies and nothing was stored.  Otherwise the channel is stored and
\* the success reply sent ("ok") or that reply raised ("reply_failed"), which
\* the same except branch answers
set_channel_validated(outcome) ==
    /\ channel_id # "None"
    /\ channel_id' = "None"
    /\ IF outcome = "inaccessible"
       THEN /\ reply' = ChannelError
            /\ UNCHANGED target_channel
       ELSE /\ target_channel' = channel_id
            /\ reply' = IF outcome = "ok" THEN Reply(TRUE, "channel_set", 0) ELSE ChannelError
    /\ UNCHANGED <<active, files, thumbnail_path, nextId, run>>

\* -------------------------------------------------------------- clear_command
\* clear_command that deactivates the session and keeps the list
clear_command_keeps_files(ok) ==
    LET files_count == Len(files)
    IN  /\ active' = FALSE
        /\ reply' = Reply(ok, "cleared", files_count)
        /\ UNCHANGED <<files, run, thumbnail_path, nextId, target_channel, channel_id>>

\* clear_command that counts the items after the reset
clear_command_counts_late(ok) ==
    /\ active' = FALSE
    /\ files' = <<>>
    /\ run' = Unalias(run)
    /\ reply' = Reply(ok, "cleared", Len(files'))
    /\ UNCHANGED <<thumbnail_path, nextId, target_channel, channel_id>>

\* clear_command that also ends the upload_command runs in flight
clear_command_aborts_runs(ok) ==
    LET files_count == Len(files)
    IN  /\ active' = FALSE
        /\ files' = <<>>
        /\ run' = [r \in Runs |-> RunIdle]
        /\ reply' = Reply(ok, "cleared", files_count)
        /\ UNCHANGED <<thumbnail_path, nextId, target_channel, channel_id>>

clear_command(ok) ==
    LET files_count == Len(files)
    IN  /\ active' = FALSE
        /\ files' = <<>>
        /\ run' = Unalias(run)
        /\ reply' = Reply(ok, "cleared", files_count)
        /\ UNCHANGED <<thumbnail_path, nextId, target_channel, channel_id>>


\* ------------------------------------------------- upload_command: organizing
Range(s) == {s[i] : i \in 1..Len(s)}

\* InsertSorted that puts an element before the elements of equal key
InsertSortedBeforeEqual(t, x, key) ==
    LET p == Cardinality({i \in 1..Len(t) : key[t[i]] < key[x]})
    IN  SubSeq(t, 1, p) \o <<x>> \o SubSeq(t, p + 1, Len(t))

\* sorted(s, key=...): Python's sort is stable, so an element goes after every
\* element whose key is not larger; key is a function on the elements of s
InsertSorted(t, x, key) ==
    LET p == Cardinality({i \in 1..Len(t) : key[t[i]] <= key[x]})
    IN  SubSeq(t, 1, p) \o <<x>> \o SubSeq(t, p + 1, Len(t))

RECURSIVE sorted(_, _)
sorted(s, key) ==
    IF s = <<>> THEN <<>>
    ELSE InsertSorted(sorted(SubSeq(s, 1, Len(s) - 1), key), s[Len(s)], key)

\* the keys of the defaultdict `episodes`, in the order of their first item
RECURSIVE episode_keys(_)
episode_keys(fs) ==
    IF fs = <<>> THEN <<>>
    ELSE LET before == episode_keys(SubSeq(fs, 1, Len(fs) - 1))
             k == fs[Len(fs)].episode
         IN  IF k \in Range(before) THEN before ELSE Append(before, k)

\* episodes[k]: the items whose episode string is k, in insertion order
RECURSIVE episode_files(_, _)
episode_files(fs, k) ==
    IF fs = <<>> THEN <<>>
    ELSE LET before == episode_files(SubSeq(fs, 1, Len(fs) - 1), k)
         IN  IF fs[Len(fs)].episode = k THEN Append(before, fs[Len(fs)]) ELSE before

\* quality_order.get(q, 0)
quality_order(q) ==
    CASE q = <<"4", "8", "0", "p">> -> 1
      [] q = <<"7", "2", "0", "p">> -> 2
      [] q = <<"1", "0", "8", "0", "p">> -> 3
      [] q = <<"2", "1", "6", "0", "p">> -> 4
      [] OTHER -> 0

\* sorted(episodes.keys(), key=lambda x: int(x))
sorted_episodes(fs) ==
    LET keys == episode_keys(fs)
    IN  sorted(keys, [k \in Range(keys) |-> int(k)])

\* the episodes in delivery order, each with its items sorted by quality
organize(fs) ==
    LET eps == sorted_episodes(fs)
    IN  [g \in 1..Len(eps) |->
            LET members == episode_files(fs, eps[g])
            IN  [episode |-> eps[g],
                 files |-> sorted(members, [x \in Range(members) |-> quality_order(x.quality)])]]


\* --------------------------------------------------- upload_command: the steps
\* The pc of a run names the await it is suspended on:
\*   reply_status  line 303   send_message  line 321   get_messages  line 336
\*   deliver       lines 342-375 (send_document/video/audio/photo, copy_message)
\*   send_sticker  line 384   edit_text     line 392   reply_report  line 403

\* the item the inner loop is at
current_file(rr) == rr.groups[rr.gi].files[rr.fi]

\* the inner for loop moves on: the next item of the episode, or the sticker
next_file(rr) ==
    IF rr.fi < Len(rr.groups[rr.gi].files)
    THEN [rr EXCEPT !.fi = @ + 1,
                    !.pc = IF rr.custom_thumb THEN "get_messages" ELSE "deliver"]
    ELSE [rr EXCEPT !.pc = "send_sticker"]

\* upload_start with the empty-list guard resetting the session and reporting
\* a run of nothing
upload_start_resets_on_empty(r, ok) ==
    /\ run[r].pc = "idle"
    /\ IF ~active
       THEN /\ reply' = Reply(ok, "not_active", 0)
            /\ UNCHANGED <<run, active>>
       ELSE IF files = <<>>
       THEN /\ reply' = Reply(ok, "complete", 0)
            /\ active' = FALSE
            /\ UNCHANGED run
       ELSE /\ run' = [run EXCEPT ![r] =
                    [RunIdle EXCEPT !.pc = "reply_status", !.files = files, !.aliased = TRUE,
                                    !.groups = organize(files), !.chat = OperatorChat]]
            /\ UNCHANGED <<reply, active>>
    /\ UNCHANGED <<files, thumbnail_path, nextId, target_channel, channel_id>>

\* lines 279-305: the two guards, each with its reply and return; then the
\* grouping and sorting, up to the status reply
upload_start(r, ok) ==
    /\ run[r].pc = "idle"
    /\ IF ~active
       THEN /\ reply' = Reply(ok, "not_active", 0)
            /\ UNCHANGED run
       ELSE IF files = <<>>
       THEN /\ reply' = Reply(ok, "no_files", 0)
            /\ UNCHANGED run
       ELSE /\ run' = [run EXCEPT ![r] =
                    [RunIdle EXCEPT !.pc = "reply_status", !.files = files, !.aliased = TRUE,
                                    !.groups = organize(files), !.chat = OperatorChat]]
            /\ UNCHANGED reply
    /\ UNCHANGED <<active, files, thumbnail_path, nextId, target_channel, channel_id>>

\* lines 303-321: the status reply returns (or raises, which ends the handler
\* in the outer except); counters, custom thumbnail, first announcement
upload_status_sent(r, ok) ==
    /\ run[r].pc = "reply_status"
    /\ IF ok
       THEN /\ run' = [run EXCEPT ![r] =
                    [run[r] EXCEPT !.pc = "send_message", !.gi = 1, !.fi = 0,
                                   !.uploaded = 0, !.failed = 0,
                                   !.custom_thumb = thumbnail_path]]
            /\ UNCHANGED reply
       ELSE /\ run' = [run EXCEPT ![r] = RunIdle]
            /\ reply' = Reply(FALSE, "error", 0)
    /\ UNCHANGED <<active, files, thumbnail_path, nextId, target_channel, channel_id>>

\* lines 321-336: the announcement returns or raises (logged only); first item
upload_announced(r, ok) ==
    /\ run[r].pc = "send_message"
    /\ run' = [run EXCEPT ![r] =
            [run[r] EXCEPT !.fi = 1,
                           !.pc = IF run[r].custom_thumb THEN "get_messages" ELSE "deliver"]]
    /\ UNCHANGED <<active, files, thumbnail_path, nextId, target_channel, channel_id, reply>>

\* lines 336-368 and 377-381: get_messages returns the original message, whose
\* media is `media` (a kind, or "none"), or raises FloodWait or another error.
\* A branch is taken only when the recorded kind is the kind found; with no
\* branch nothing is sent and line 377 still counts the item as uploaded.
upload_fetched(r, media) ==
    /\ run[r].pc = "get_messages"
    /\ run' = [run EXCEPT ![r] =
            IF media \in {"flood", "error"}
            THEN next_file([run[r] EXCEPT !.failed = @ + 1, !.resp = media])
            ELSE IF media = current_file(run[r]).file_type
            THEN [run[r] EXCEPT !.pc = "deliver", !.resp = "found"]
            ELSE next_file([run[r] EXCEPT !.uploaded = @ + 1, !.resp = "no_branch"])]
    /\ UNCHANGED <<active, files, thumbnail_path, nextId, target_channel, channel_id, reply>>

\* upload_delivered whose error is not caught per item: it reaches the outer
\* except, which ends the handler
upload_delivered_error_escapes(r, resp) ==
    /\ run[r].pc = "deliver"
    /\ IF resp = "ok"
       THEN /\ run' = [run EXCEPT ![r] =
                    next_file([run[r] EXCEPT !.log = Append(@, current_file(run[r]).message_id),
                                             !.resp = resp, !.uploaded = @ + 1])]
            /\ UNCHANGED reply
       ELSE /\ run' = [run EXCEPT ![r] = RunIdle]
            /\ reply' = Reply(FALSE, "error", 0)
    /\ UNCHANGED <<active, files, thumbnail_path, nextId, target_channel, channel_id>>

\* lines 342-381: the send or copy call for the current item returns ("ok") or
\* raises FloodWait ("flood") or another error; both exceptions reach the same
\* `except Exception`
upload_delivered(r, resp) ==
    /\ run[r].pc = "deliver"
    /\ run' = [run EXCEPT ![r] =
            LET logged == [run[r] EXCEPT !.log = Append(@, current_file(run[r]).message_id),
                                         !.resp = resp]
            IN  IF resp = "ok" THEN next_file([logged EXCEPT !.uploaded = @ + 1])
                ELSE next_file([logged EXCEPT !.failed = @ + 1])]
    /\ UNCHANGED <<active, files, thumbnail_path, nextId, target_channel, channel_id, reply>>

\* upload_sticker_sent whose error is not caught: it reaches the outer except,
\* which ends the handler
upload_sticker_error_escapes(r, ok) ==
    /\ run[r].pc = "send_sticker"
    /\ IF ok
       THEN /\ run' = [run EXCEPT ![r] = [run[r] EXCEPT !.pc = "edit_text", !.stickers = @ + 1]]
            /\ UNCHANGED reply
       ELSE /\ run' = [run EXCEPT ![r] = RunIdle]
            /\ reply' = Reply(FALSE, "error", 0)
    /\ UNCHANGED <<active, files, thumbnail_path, nextId, target_channel, channel_id>>

\* lines 383-392: the sticker call returns or raises (logged only)
upload_sticker_sent(r, ok) ==
    /\ run[r].pc = "send_sticker"
    /\ run' = [run EXCEPT ![r] = [run[r] EXCEPT !.pc = "edit_text", !.stickers = @ + 1]]
    /\ UNCHANGED <<active, files, thumbnail_path, nextId, target_channel, channel_id, reply>>

\* lines 392-403: the progress edit returns: the next episode, or after the last
\* one the session reset and the final report.  If it raises, the outer except
\* ends the handler with the session as it is.
upload_progress_sent(r, ok) ==
    /\ run[r].pc = "edit_text"
    /\ IF ~ok
       THEN /\ run' = [run EXCEPT ![r] = RunIdle]
            /\ reply' = Reply(FALSE, "error", 0)
            /\ UNCHANGED <<active, files>>
       ELSE IF run[r].gi < Len(run[r].groups)
       THEN /\ run' = [run EXCEPT ![r] =
                    [run[r] EXCEPT !.gi = @ + 1, !.fi = 0, !.pc = "send_message"]]
            /\ UNCHANGED <<active, files, reply>>
       ELSE /\ active' = FALSE
            /\ files' = <<>>
            /\ run' = [Unalias(run) EXCEPT ![r].pc = "reply_report"]
            /\ UNCHANGED reply
    /\ UNCHANGED <<thumbnail_path, nextId, target_channel, channel_id>>

\* lines 403-413: the final report with the two counters is sent, or the outer
\* except reports an error; the handler returns and its locals are gone
upload_reported(r, ok) ==
    /\ run[r].pc = "reply_report"
    /\ run' = [run EXCEPT ![r] = RunIdle]
    /\ reply' = IF ok THEN [text |-> "complete", n |-> run[r].uploaded, failed |-> run[r].failed]
                ELSE Reply(FALSE, "error", 0)
    /\ UNCHANGED <<active, files, thumbnail_path, nextId, target_channel, channel_id>>

\* ------------------------------------------------------------ inbound messages
Msg(caption, file_name, kind) == [caption |-> caption, file_name |-> file_name, kind |-> kind]

Msgs ==
    { Msg(<<"E", "1">>, <<>>, "document"),
      Msg(<<"E", "2", " ", "4", "8", "0", "p">>, <<>>, "photo"),
      Msg(<<>>, <<>>, "photo"),
      Msg(<<"x">>, <<>>, "video") }

Responses == {"ok", "flood", "error"}

Next ==
    \/ \E ok \in BOOLEAN : collect_command(ok)
    \/ \E m \in Msgs, ok \in BOOLEAN : handle_file_collection(m, ok)
    \/ \E m \in Msgs, ok \in BOOLEAN : handle_photo_thumbnail(m, ok)
    \/ \E ok \in BOOLEAN : del_thumb_command(ok)
    \/ \E ok \in BOOLEAN : clear_command(ok)
    \/ \E r \in Runs, ok \in BOOLEAN : upload_start(r, ok)
    \/ \E r \in Runs, ok \in BOOLEAN : upload_status_sent(r, ok)
    \/ \E r \in Runs, ok \in BOOLEAN : upload_announced(r, ok)
    \/ \E r \in Runs, media \in Kinds \cup {"none", "flood", "error"} : upload_fetched(r, media)
    \/ \E r \in Runs, resp \in Responses : upload_delivered(r, resp)
    \/ \E r \in Runs, ok \in BOOLEAN : upload_sticker_sent(r, ok)
    \/ \E r \in Runs, ok \in BOOLEAN : upload_progress_sent(r, ok)
    \/ \E r \in Runs, ok \in BOOLEAN : upload_reported(r, ok)

Spec == Init /\ [][Next]_vars


\* --------------------------------------------- one operator, many captions
\* The same handlers with a wider choice of captions and file names, under one
\* dispatcher worker: at most one upload_command is in flight, and every other
\* handler still interleaves with it at its awaits.
OrganizeMsgs ==
    { Msg(<<"E", "1">>, <<>>, "document"),
      Msg(<<"E", "0", "1", " ", "4", "8", "0", "p">>, <<>>, "video"),
      Msg(<<"E", "1", " ", "1", "4", "4", "0", "p">>, <<>>, "document"),
      Msg(<<"E", "0", "0", "1">>, <<>>, "document"),
      Msg(<<"S", "1", "E", "1", "0", " ", "7", "2", "0", "p">>, <<>>, "document"),
      Msg(<<"E", "2", " ", "1", "0", "8", "0", "P">>, <<>>, "photo"),
      Msg(<<"E", "1", "0", "0", " ", "2", "1", "6", "0", "p">>, <<>>, "video"),
      Msg(<<>>, <<"E", "3">>, "audio"),
      Msg(<<"E", "4">>, <<"E", "5">>, "document"),
      Msg(<<"x">>, <<>>, "document") }

NextOrganize ==
    \/ \E ok \in BOOLEAN : collect_command(ok)
    \/ \E m \in OrganizeMsgs, ok \in BOOLEAN : handle_file_collection(m, ok)
    \/ \E m \in OrganizeMsgs, ok \in BOOLEAN : handle_photo_thumbnail(m, ok)
    \/ \E ok \in BOOLEAN : del_thumb_command(ok)
    \/ \E ok \in BOOLEAN : clear_command(ok)
    \/ \E ok \in BOOLEAN : upload_start(1, ok)
    \/ \E ok \in BOOLEAN : upload_status_sent(1, ok)
    \/ \E ok \in BOOLEAN : upload_announced(1, ok)
    \/ \E media \in Kinds \cup {"none", "flood", "error"} : upload_fetched(1, media)
    \/ \E resp \in Responses : upload_delivered(1, resp)
    \/ \E ok \in BOOLEAN : upload_sticker_sent(1, ok)
    \/ \E ok \in BOOLEAN : upload_progress_sent(1, ok)
    \/ \E ok \in BOOLEAN : upload_reported(1, ok)

SpecOrganize == Init /\ [][NextOrganize]_vars


\* ------------------------------------------------ with /setchannel dispatched
\* register_handlers adds no handler for set_channel_command, so under Spec and
\* SpecOrganize target_channel stays None.  Here the command the help text
\* advertises is dispatched as well, next to the handlers of one worker.
ChannelOutcomes == {"ok", "reply_failed", "inaccessible"}

NextChannel ==
    \/ \E arg \in Chats \cup {"None"}, ok \in BOOLEAN : set_channel_called(arg, ok)
    \/ \E outcome \in ChannelOutcomes : set_channel_validated(outcome)
    \/ \E ok \in BOOLEAN : collect_command(ok)
    \/ \E m \in Msgs, ok \in BOOLEAN : handle_file_collection(m, ok)
    \/ \E m \in Msgs, ok \in BOOLEAN : handle_photo_thumbnail(m, ok)
    \/ \E ok \in BOOLEAN : del_thumb_command(ok)
    \/ \E ok \in BOOLEAN : clear_command(ok)
    \/ \E ok \in BOOLEAN : upload_start(1, ok)
    \/ \E ok \in BOOLEAN : upload_status_sent(1, ok)
    \/ \E ok \in BOOLEAN : upload_announced(1, ok)
    \/ \E media \in Kinds \cup {"none", "flood", "error"} : upload_fetched(1, media)
    \/ \E resp \in Responses : upload_delivered(1, resp)
    \/ \E ok \in BOOLEAN : upload_sticker_sent(1, ok)
    \/ \E ok \in BOOLEAN : upload_progress_sent(1, ok)
    \/ \E ok \in BOOLEAN : upload_reported(1, ok)

SpecChannel == Init /\ [][NextChannel]_vars


\* ================================================================== claims
\* the awaits of the delivery loop and of the messages around it
Suspended == {"reply_status", "send_message", "get_messages", "deliver",
              "send_sticker", "edit_text", "reply_report"}

\* the items run r took when it started, in delivery order
RECURSIVE Flatten(_)
Flatten(gs) == IF gs = <<>> THEN <<>> ELSE Flatten(SubSeq(gs, 1, Len(gs) - 1)) \o gs[Len(gs)].files

RunItems(r) == Flatten(run[r].groups)
Ids(fs) == {fs[i].message_id : i \in 1..Len(fs)}

\* this step is run r taking the answer of a get_messages, send or copy call
Answered(r) ==
    /\ run[r].pc \in {"get_messages", "deliver"}
    /\ \/ run'[r].pc # run[r].pc
       \/ run'[r].fi # run[r].fi
       \/ run'[r].log # run[r].log

\* C1: a rate-limit signal (FloodWait) answering a delivery call never
\* increments the failed counter; only other delivery errors do.
C1_RateLimitNotCountedFailed ==
    [][\A r \in Runs :
          (Answered(r) /\ run'[r].resp = "flood") => run'[r].failed = run[r].failed]_vars

\* C2: a run over a single item whose delivery call was answered by a
\* rate-limit signal does not end there: the same item is attempted again, and
\* when that attempt succeeds the run ends with delivered = 1 and failed = 0.
\* So no such run reaches its final report with the rate-limit signal as the
\* last answer, and a run whose last answer is a success reports 1 and 0.
C2_RetrySameItemAfterRateLimit ==
    \A r \in Runs :
        (run[r].pc = "reply_report" /\ Len(RunItems(r)) = 1 /\ ~run[r].custom_thumb)
        => /\ run[r].resp # "flood"
           /\ run[r].resp = "ok" => (run[r].uploaded = 1 /\ run[r].failed = 0)

\* C3: while a delivery run is suspended on a collaborator call, the session
\* no longer holds the items of that run (they were taken and the session was
\* reset before the first suspension).
C3_SnapshotTakenBeforeSuspension ==
    \A r \in Runs :
        run[r].pc \in Suspended => Ids(RunItems(r)) \cap Ids(files) = {}


C5_ItemsOnlyWhileCollecting == files # <<>> => active

\* items are held while a delivery run that no longer shares the list is suspended
C5_Witness ==
    /\ files # <<>>
    /\ \E r \in Runs : run[r].pc \in Suspended /\ ~run[r].aliased

\* C6: a media message handled while the session is not Collecting leaves the
\* item list and the session state unchanged, whatever its caption.
C6_AddWhileIdleChangesNothing ==
    [][(~active /\ \E m \in OrganizeMsgs, ok \in BOOLEAN :
                       handle_file_collection(m, ok) \/ handle_photo_thumbnail(m, ok))
          => (files' = files /\ active' = active)]_vars

\* a media message has been handled and ignored without a reply while Idle
C6_Witness == nextId > 1 /\ ~active /\ files = <<>> /\ reply.text = "none"

\* C7: clear, in any state, reports the number of items held just before it
\* and leaves the session Idle and empty; a clear whose previous reply was a
\* clear's reports 0.
C7_ClearReturnsPriorCount ==
    [][(\E ok \in BOOLEAN : clear_command(ok))
          => /\ ~active' /\ files' = <<>>
             /\ reply'.text = "cleared" => reply'.n = Len(files)
             /\ (reply.text = "cleared" /\ reply'.text = "cleared") => reply'.n = 0]_vars

\* a clear has reported a positive count
C7_Witness == reply.text = "cleared" /\ reply.n > 0 /\ ~active /\ files = <<>>

\* the item of run r with message id `id`
ItemOf(r, id) == CHOOSE x \in Range(RunItems(r)) : x.message_id = id

\* C8: the episode groups handed to delivery are strictly increasing by the
\* numeric value of their episode code.
C8_GroupsStrictlyIncreasing ==
    \A r \in Runs : \A i, j \in 1..Len(run[r].groups) :
        i < j => int(run[r].groups[i].episode) < int(run[r].groups[j].episode)

\* the quality ranks as the claim gives them
ClaimedRank(q) ==
    CASE q = <<"4", "8", "0", "p">> -> 1
      [] q = <<"7", "2", "0", "p">> -> 2
      [] q = <<"1", "0", "8", "0", "p">> -> 3
      [] q = <<"1", "4", "4", "0", "p">> -> 4
      [] q = <<"2", "1", "6", "0", "p">> -> 5
      [] q = <<"4", "k">> -> 5
      [] OTHER -> 0

\* C9: within an episode group, items are delivered in non-decreasing quality
\* rank under the table 480p=1, 720p=2, 1080p=3, 1440p=4, 2160p=4k=5, Unknown=0.
C9_QualityNonDecreasing ==
    \A r \in Runs : \A i, j \in 1..Len(run[r].log) :
        LET x == ItemOf(r, run[r].log[i])
            y == ItemOf(r, run[r].log[j])
        IN  (i < j /\ x.episode = y.episode)
            => ClaimedRank(x.quality) <= ClaimedRank(y.quality)

\* x and y have the same episode code and the same quality rank
SameEpisodeAndRank(x, y) ==
    /\ x.episode = y.episode
    /\ \/ quality_order(x.quality) = quality_order(y.quality)
       \/ ClaimedRank(x.quality) = ClaimedRank(y.quality)

\* C10: two items with the same episode code and the same quality rank are
\* delivered in the order they were added (message ids grow in that order).
C10_TiesKeepInsertionOrder ==
    \A r \in Runs : \A i, j \in 1..Len(run[r].log) :
        (i < j /\ SameEpisodeAndRank(ItemOf(r, run[r].log[i]), ItemOf(r, run[r].log[j])))
        => run[r].log[i] < run[r].log[j]

\* two such items have both been sent
C10_Witness ==
    \E r \in Runs :
        /\ Len(run[r].log) >= 2
        /\ SameEpisodeAndRank(ItemOf(r, run[r].log[1]), ItemOf(r, run[r].log[2]))


\* the message ids of a list of items, in order
IdSeq(fs) == [i \in 1..Len(fs) |-> fs[i].message_id]

\* C11: a clear issued while a delivery run is in flight does not abort or
\* shorten the run: the clear step leaves the run where it is, with the same
\* groups, counters and calls made so far, and a run that has finished its loop
\* has made a send or copy call for every item it took, in their order (a run
\* with a custom thumbnail sends an item only after get_messages found it, so
\* the full list is required of the runs without one).
C11_ClearDoesNotAbortRun ==
    /\ [](\A r \in Runs :
            (run[r].pc = "reply_report" /\ ~run[r].custom_thumb)
            => run[r].log = IdSeq(RunItems(r)))
    /\ [][(\E ok \in BOOLEAN : clear_command(ok))
          => \A r \in Runs :
                /\ run'[r].pc = run[r].pc
                /\ run'[r].groups = run[r].groups
                /\ run'[r].gi = run[r].gi /\ run'[r].fi = run[r].fi
                /\ run'[r].log = run[r].log
                /\ run'[r].uploaded = run[r].uploaded /\ run'[r].failed = run[r].failed]_vars

\* a run cleared in flight is still delivering, with items left to send
C11_Witness ==
    \E r \in Runs :
        /\ run[r].pc = "deliver" /\ ~run[r].aliased
        /\ ~active /\ files = <<>> /\ reply.text = "cleared"
        /\ run[r].log # <<>>
        /\ Len(run[r].log) < Len(RunItems(r))


\* run r has moved from its current item to the next step of the inner loop:
\* the next item of the same group, or the sticker after the group's last item
MovedOn(r) ==
    /\ run'[r].groups = run[r].groups /\ run'[r].gi = run[r].gi
    /\ IF run[r].fi < Len(run[r].groups[run[r].gi].files)
       THEN run'[r].fi = run[r].fi + 1 /\ run'[r].pc \in {"get_messages", "deliver"}
       ELSE run'[r].fi = run[r].fi /\ run'[r].pc = "send_sticker"

\* C12: a delivery error other than the rate-limit signal increments failed by
\* exactly one and leaves delivered alone, the run goes on with the next item (or
\* the rest of the loop after the group's last item) instead of stopping (no
\* answer of a delivery call takes the run out of its loop), and no item is sent
\* twice in a run.
C12_ErrorCountedOnceRunContinues ==
    /\ [](\A r \in Runs : \A i, j \in 1..Len(run[r].log) :
            i # j => run[r].log[i] # run[r].log[j])
    /\ [][\A r \in Runs :
            /\ Answered(r) => run'[r].pc \in {"get_messages", "deliver", "send_sticker"}
            /\ (Answered(r) /\ run'[r].resp = "error")
               => /\ run'[r].failed = run[r].failed + 1
                  /\ run'[r].uploaded = run[r].uploaded
                  /\ MovedOn(r)]_vars

\* the first item failed with an error, and the run is at the send of the second
C12_Witness ==
    \E r \in Runs :
        /\ run[r].pc = "deliver" /\ run[r].resp = "error"
        /\ run[r].failed = 1 /\ run[r].uploaded = 0
        /\ Len(run[r].log) = 1 /\ Len(RunItems(r)) >= 2


\* the number of groups of run r that are behind their divider: the group the
\* run is at counts once its sticker call has been made
GroupsDivided(r) ==
    IF run[r].pc \in {"edit_text", "reply_report"} THEN run[r].gi
    ELSE IF run[r].gi = 0 THEN 0 ELSE run[r].gi - 1

\* C13: every episode group gets exactly one divider (sticker) call, made after
\* all members of the group have been attempted and before the next group is
\* announced: at every point of a run the sticker calls made are one per group
\* gone through, a sticker call is made only from the group's last member (and,
\* without a custom thumbnail, with a send or copy call made for every member so
\* far), and a sticker or announce call that fails leaves the run in its loop,
\* at the progress edit and at the group's first member.
C13_OneDividerPerGroup ==
    /\ [](\A r \in Runs : run[r].pc \in Suspended => run[r].stickers = GroupsDivided(r))
    /\ [][\A r \in Runs :
            /\ run'[r].stickers # run[r].stickers /\ run'[r].pc # "idle"
               => /\ run[r].pc = "send_sticker" /\ run'[r].stickers = run[r].stickers + 1
                  /\ run[r].fi = Len(run[r].groups[run[r].gi].files)
                  /\ ~run[r].custom_thumb
                     => Len(run[r].log) = Len(Flatten(SubSeq(run[r].groups, 1, run[r].gi)))
            /\ upload_sticker_sent(r, FALSE)
               => run'[r].pc = "edit_text" /\ run'[r].gi = run[r].gi
            /\ upload_announced(r, FALSE)
               => /\ run'[r].pc \in {"get_messages", "deliver"}
                  /\ run'[r].gi = run[r].gi /\ run'[r].fi = 1]_vars

\* the second group is being delivered, one divider behind it
C13_Witness ==
    \E r \in Runs :
        /\ run[r].pc = "deliver" /\ run[r].gi = 2
        /\ run[r].stickers = 1 /\ run[r].log # <<>>


\* the runs waiting for the answer of a send or copy call
Delivering == {r \in Runs : run[r].pc = "deliver"}

\* C14: delivery is strictly sequential: at most one send or copy call is in
\* flight at any time, also when /upload is invoked again while an earlier
\* upload_command is suspended.
C14_OneDeliveryCallInFlight ==
    Cardinality(Delivering) <= 1


\* C15: once /setchannel has succeeded with channel d, an upload_command started
\* afterwards sends every item to d: the chat its send and copy calls name is
\* the configured target channel.
C15_RunSendsToTargetChannel ==
    [][\A r \in Runs :
          (run[r].pc = "idle" /\ run'[r].pc = "reply_status" /\ target_channel # "None")
          => run'[r].chat = target_channel]_vars


\* C16: a /setchannel whose get_chat validation fails leaves the whole session
\* as it was: target channel, active flag, item list and thumbnail.
C16_FailedValidationChangesNothing ==
    [][set_channel_validated("inaccessible")
       => /\ target_channel' = target_channel
          /\ active' = active
          /\ files' = files
          /\ thumbnail_path' = thumbnail_path]_vars

\* a validation has failed on a collecting session that holds items, and no
\* target channel is stored
C16_Witness ==
    /\ reply = ChannelError /\ channel_id = "None"
    /\ target_channel = "None"
    /\ active /\ files # <<>>


\* the caption of m, or the file name a document, video or audio carries, holds
\* an episode marker
Yields(m) ==
    \/ extract_info_from_caption(m.caption).episode # <<>>
    \/ m.kind # "photo" /\ extract_info_from_caption(m.file_name).episode # <<>>

\* the messages of OrganizeMsgs with an episode marker in caption or file name
YieldingMsgs == {m \in OrganizeMsgs : Yields(m)}

\* this step is message m arriving while the session is collecting (what the
\* step stored, if anything, carries m's caption and kind)
AddStep(m) ==
    /\ active
    /\ nextId' = nextId + 1
    /\ \/ files' = files
       \/ /\ files'[Len(files')].original_caption = m.caption
          /\ files'[Len(files')].file_type = m.kind
    /\ \E ok \in BOOLEAN : handle_file_collection(m, ok) \/ handle_photo_thumbnail(m, ok)

\* C17: while collecting, a message is rejected and the list left unchanged
\* exactly when neither its caption nor its file name yields an episode (a
\* photo without one is not rejected but kept as thumbnail; the list is
\* unchanged all the same); otherwise exactly one item, the message, is appended
\* at the end of the list and the total the reply shows is the new length.
C17_RejectIffNoEpisode ==
    [][\A m \in OrganizeMsgs :
          AddStep(m)
          => IF m \in YieldingMsgs
             THEN /\ Len(files') = Len(files) + 1
                  /\ SubSeq(files', 1, Len(files)) = files
                  /\ files'[Len(files')].message_id = nextId
                  /\ files'[Len(files')].original_caption = m.caption
                  /\ reply'.text \in {"added", "error"}
                  /\ reply'.text = "added" => reply'.n = Len(files')
             ELSE /\ files' = files
                  /\ m.kind # "photo" => reply'.text \in {"no_episode", "error"}]_vars

\* a message accepted by its file name is in the list, and the message after it
\* was rejected
C17_Witness ==
    /\ active /\ reply.text = "no_episode"
    /\ Len(files) = 1 /\ files[1].original_caption = <<>>


\* C18: /collect, in whatever state the session is and whether or not its reply
\* can be sent, leaves the session collecting with an empty list; items
\* collected before it are discarded.
C18_StartLeavesCollectingEmpty ==
    [][(\E ok \in BOOLEAN : collect_command(ok)) => (active' /\ files' = <<>>)]_vars

\* the session was started again while a run that had taken its items was in
\* flight: the list the run still holds is no longer the session's
C18_Witness ==
    \E r \in Runs :
        /\ run[r].pc \in Suspended /\ ~run[r].aliased /\ run[r].files # <<>>
        /\ active /\ files = <<>> /\ reply.text = "activated"


\* d is a string of exactly two digits
TwoDigits(d) == Len(d) = 2 /\ \A i \in 1..Len(d) : d[i] \in Digits

\* C19: every item stored in the session has an episode code and a season code
\* of exactly two digits.
C19_CodesHaveTwoDigits ==
    \A i \in 1..Len(files) : TwoDigits(files[i].episode) /\ TwoDigits(files[i].season)


\* C20: the caption is tried first and the file name only when the caption
\* yields no episode: an accepted message whose caption yields an episode is
\* stored with the caption's episode, season and quality, whatever its file
\* name holds, and a message whose caption yields none is stored with the file
\* name's.
C20_CaptionBeforeFileName ==
    [][\A m \in OrganizeMsgs :
          (AddStep(m) /\ m \in YieldingMsgs)
          => LET stored == files'[Len(files')]
                 from_caption == extract_info_from_caption(m.caption)
                 info == IF from_caption.episode # <<>> THEN from_caption
                         ELSE extract_info_from_caption(m.file_name)
             IN  /\ Len(files') = Len(files) + 1
                 /\ stored.episode = info.episode
                 /\ stored.season = (IF info.season # <<>> THEN info.season ELSE <<"0", "1">>)
                 /\ stored.quality = (IF info.quality # <<>> THEN info.quality ELSE Unknown)]_vars

\* the list holds a message stored under its caption's episode although its
\* file name holds another, and a message stored under its file name's episode
C20_Witness ==
    \E i, j \in 1..Len(files) :
        /\ files[i].original_caption = <<"E", "4">> /\ files[i].episode = <<"0", "4">>
        /\ files[j].original_caption = <<>> /\ files[j].episode = <<"0", "3">>


\* C21: no collected item is handed to a send or copy call more than once: not
\* twice by one upload_command, and not by two upload_commands, however the
\* handlers interleave and whatever the calls answer.
C21_NoItemSentTwice ==
    /\ \A r \in Runs : \A i, j \in 1..Len(run[r].log) :
            i # j => run[r].log[i] # run[r].log[j]
    /\ \A r1, r2 \in Runs :
            r1 # r2 => Range(run[r1].log) \cap Range(run[r2].log) = {}


\* the awaits of the delivery loop: announce, get_messages, send or copy,
\* sticker, progress edit
LoopAwaits == {"send_message", "get_messages", "deliver", "send_sticker", "edit_text"}

\* C22: an upload_command that has entered its delivery loop runs to completion
\* whatever the announce, delivery, sticker and progress calls answer: no step
\* takes it out of the loop other than to the final report, it gets there with
\* the session reset, and at the final report every item it took has been
\* counted once, as delivered or as failed.
C22_RunCompletesWhateverCallsReturn ==
    /\ [](\A r \in Runs :
            run[r].pc = "reply_report"
            => run[r].uploaded + run[r].failed = Len(RunItems(r)))
    /\ [][\A r \in Runs :
            /\ run[r].pc \in LoopAwaits => run'[r].pc \in LoopAwaits \cup {"reply_report"}
            /\ (run[r].pc \in LoopAwaits /\ run'[r].pc = "reply_report")
               => (~active' /\ files' = <<>>)]_vars


\* C23: the delivered counter goes up for an item only when a send or copy
\* call for that item was made and succeeded, on the custom-thumbnail path as
\* well, for every recorded kind and every media found on the original message.
C23_DeliveredOnlyAfterSuccessfulSend ==
    [][\A r \in Runs :
          run'[r].uploaded > run[r].uploaded
          => /\ run[r].pc = "deliver"
             /\ run'[r].log = Append(run[r].log, current_file(run[r]).message_id)
             /\ run'[r].resp = "ok"]_vars


\* C24: the end of a delivery run does not touch a session started after the
\* run took its items.  When run r leaves its loop while the session is active
\* on a list that is no longer the one r read (so /collect was handled while r
\* was in flight), the session stays active and keeps the items accepted since.
C24_CompletionKeepsLaterSession ==
    [][\A r \in Runs :
          (/\ run[r].pc = "edit_text" /\ run'[r].pc = "reply_report"
           /\ active /\ ~run[r].aliased)
          => (active' /\ files' = files)]_vars

====
